---- MODULE Spec2Model ----
(***************************************************************************)
(* Model of the docker-compose builder of cdvelop/compose.                 *)
(*                                                                         *)
(* Text is a sequence of tokens (a Go string); a token is a character or   *)
(* an opaque run of characters that holds no '=', no white space and no    *)
(* newline.  A file is [exists, data].  A Go map is a function; the order  *)
(* in which `range` visits it is a nondeterministic choice.                *)
(***************************************************************************)
EXTENDS Integers, Sequences, FiniteSets, TLC

\* ------------------------------------------------------------------ bounds
\* API calls made in one run
MaxCalls == 5
\* I/O failures injected in one run
MaxFaults == 1

\* the services NewService has built, and the variable names used
Services == {1, 2}
Keys == {"K1", "K2"}
\* the explicit value handed to AddEnvironment: "a " (with a trailing blank)
ExplicitValues == {<<"a", " ">>}
Versions == {<<"0.1">>}
ServiceNames == <<"s1", "s2">>
\* the arguments handed to the setters: an image, the empty container name, a
\* named volume and a bind mount, a restart policy, a health check with every
\* field zero and one with a test, an interval and retries
Images == {<<"img">>}
ContainerNames == {<<>>}
Volumes == {[Source |-> <<"db_data">>, Target |-> <<"/data">>],
            [Source |-> <<"./", "init.sql">>, Target |-> <<"/init.sql">>]}
RestartPolicies == {<<"always">>}
HealthChecks == {[Test |-> <<>>, Interval |-> <<>>, Timeout |-> <<>>, Retries |-> 0],
                 [Test |-> <<"CMD">>, Interval |-> <<"10s">>, Timeout |-> <<>>, Retries |-> 5]}

\* ------------------------------------------------------------ text helpers
IsSpace(c) == c \in {" ", "\t", "\n", "\r"}

RECURSIVE TrimLeft(_)
TrimLeft(s) ==
    IF s # <<>> /\ IsSpace(Head(s)) THEN TrimLeft(Tail(s)) ELSE s

RECURSIVE TrimRight(_)
TrimRight(s) ==
    IF s # <<>> /\ IsSpace(s[Len(s)]) THEN TrimRight(SubSeq(s, 1, Len(s) - 1)) ELSE s

TrimSpace(s) == TrimRight(TrimLeft(s))

\* strings.Split(s, "\n"): always at least one element
RECURSIVE Split(_)
Split(s) ==
    IF \E i \in 1..Len(s) : s[i] = "\n"
    THEN LET i == CHOOSE j \in 1..Len(s) : s[j] = "\n" /\ \A h \in 1..(j - 1) : s[h] # "\n"
         IN  <<SubSeq(s, 1, i - 1)>> \o Split(SubSeq(s, i + 1, Len(s)))
    ELSE <<s>>

\* strings.SplitN(s, "=", 2)
SplitN(s) ==
    IF \E i \in 1..Len(s) : s[i] = "="
    THEN LET i == CHOOSE j \in 1..Len(s) : s[j] = "=" /\ \A h \in 1..(j - 1) : s[h] # "="
         IN  <<SubSeq(s, 1, i - 1), SubSeq(s, i + 1, Len(s))>>
    ELSE <<s>>

\* strings.Join(lines, "\n")
RECURSIVE Join(_)
Join(lines) ==
    IF lines = <<>> THEN <<>>
    ELSE IF Len(lines) = 1 THEN lines[1]
    ELSE lines[1] \o <<"\n">> \o Join(Tail(lines))

\* the escaping of fmt's %q for the characters of the model
RECURSIVE Escape(_)
Escape(s) ==
    IF s = <<>> THEN <<>>
    ELSE (CASE Head(s) = "\n" -> <<"\\", "n">>
            [] Head(s) = "\t" -> <<"\\", "t">>
            [] Head(s) = "\"" -> <<"\\", "\"">>
            [] Head(s) = "\\" -> <<"\\", "\\">>
            [] OTHER -> <<Head(s)>>) \o Escape(Tail(s))

\* fmt verb %q
Quote(s) == <<"\"">> \o Escape(s) \o <<"\"">>

\* all the orders in which `range` may visit the keys S of a map
RangeOrders(S) ==
    {p \in [1..Cardinality(S) -> S] : \A i, j \in 1..Cardinality(S) : p[i] = p[j] => i = j}

\* --------------------------------------------------------------- the files
AbsentFile == [exists |-> FALSE, data |-> <<>>]
FileOf(d) == [exists |-> TRUE, data |-> d]

\* os.WriteFile(path, data): opens with O_CREATE|O_TRUNC, then writes.  A
\* failure leaves the file as it was (open failed: cut = -1) or holding the
\* first cut tokens of data (write or close failed).
WriteFile(file, data, fail, cut) ==
    IF ~fail THEN [file |-> FileOf(data), err |-> FALSE]
    ELSE IF cut < 0 THEN [file |-> file, err |-> TRUE]
    ELSE [file |-> FileOf(SubSeq(data, 1, cut)), err |-> TRUE]

\* where a failed write may stop: before the open (-1), or after the truncation
\* at the end of any line written so far (0 = nothing written)
Cuts(data) == {-1, 0, Len(data)} \cup {i \in 1..Len(data) : data[i] = "\n"}

\* the outcomes of os.WriteFile: success, or (when a failure may be injected)
\* every state a failed write can leave behind
WriteOutcomes(file, data, mayFail) ==
    {[file |-> WriteFile(file, data, FALSE, 0).file, err |-> FALSE, faulted |-> FALSE]}
    \cup (IF mayFail
          THEN {[file |-> WriteFile(file, data, TRUE, cut).file, err |-> TRUE, faulted |-> TRUE] :
                    cut \in Cuts(data)}
          ELSE {})

\* ------------------------------------------------- secrets store (.env)
EmptyMap == [x \in {} |-> <<>>]
MapPut(m, k, v) == [x \in (DOMAIN m) \cup {k} |-> IF x = k THEN v ELSE m[x]]

RECURSIVE ParseEnvLines(_, _)
ParseEnvLines(lines, envVars) ==
    IF lines = <<>> THEN envVars
    ELSE LET parts == SplitN(TrimSpace(Head(lines)))
         IN  ParseEnvLines(Tail(lines),
                           IF Len(parts) = 2 THEN MapPut(envVars, parts[1], parts[2])
                                             ELSE envVars)

\* readEnvFile: a file that cannot be read (absent or I/O failure) reads as
\* the empty map, and no error is returned
readEnvFile(file, readFail) ==
    IF file.exists /\ ~readFail THEN ParseEnvLines(Split(file.data), EmptyMap) ELSE EmptyMap

\* the bytes writeEnvFile builds when `range envVars` visits the keys in order ord
RECURSIVE EnvContent(_, _)
EnvContent(envVars, ord) ==
    IF ord = <<>> THEN <<>>
    ELSE Head(ord) \o <<"=">> \o envVars[Head(ord)] \o <<"\n">> \o EnvContent(envVars, Tail(ord))

writeEnvFile(file, envVars, mayFail) ==
    UNION {WriteOutcomes(file, EnvContent(envVars, ord), mayFail) :
               ord \in RangeOrders(DOMAIN envVars)}

\* ------------------------------------------------ ignore list (.gitignore)
\* filepath.Base(".env")
EnvFileName == <<".env">>

\* a trim that drops no line
DropTrailingEmpty_none(lines) == lines

RECURSIVE DropTrailingEmpty(_)
DropTrailingEmpty(lines) ==
    IF lines # <<>> /\ lines[Len(lines)] = <<>>
    THEN DropTrailingEmpty(SubSeq(lines, 1, Len(lines) - 1))
    ELSE lines

GitignoreLines(file, readFail) ==
    IF file.exists /\ ~readFail THEN Split(file.data) ELSE <<>>

EnvLineExists(lines) == \E i \in 1..Len(lines) : TrimSpace(lines[i]) = EnvFileName

GitignoreContent(lines) == Join(Append(DropTrailingEmpty(lines), EnvFileName)) \o <<"\n">>

handleGitignore(file, mayFail) ==
    UNION {LET lines == GitignoreLines(file, readFail)
           IN  IF EnvLineExists(lines)
               THEN {[file |-> file, err |-> FALSE, faulted |-> readFail]}
               ELSE {[file |-> w.file, err |-> w.err, faulted |-> readFail \/ w.faulted] :
                         w \in WriteOutcomes(file, GitignoreContent(lines), mayFail /\ ~readFail)} :
           readFail \in IF mayFail /\ file.exists THEN BOOLEAN ELSE {FALSE}}

\* AddEnvToFile(key, value): the outcomes [env, gi, err, faulted]; at most one
\* I/O operation of a call fails, and only when mayFail
AddEnvToFile(key, value, envF, giF, mayFail) ==
    UNION {LET envVars == MapPut(readEnvFile(envF, readFail), key, value)
           IN  UNION {IF w.err
                      THEN {[env |-> w.file, gi |-> giF, err |-> TRUE, faulted |-> TRUE]}
                      ELSE {[env |-> w.file, gi |-> g.file, err |-> g.err,
                             faulted |-> readFail \/ g.faulted] :
                                g \in handleGitignore(giF, mayFail /\ ~readFail)} :
                      w \in writeEnvFile(envF, envVars, mayFail /\ ~readFail)} :
           readFail \in IF mayFail /\ envF.exists THEN BOOLEAN ELSE {FALSE}}

\* ------------------------------------------------------------- the builder
VARIABLES
    procEnv,       \* the process environment: a map from some of Keys to values
    services,      \* the caller's service values (fields held by value)
    environment,   \* environment[i]: the map object service i refers to
    config,        \* the composeConfig built by NewCompose
    envFile,       \* .env
    gitignore,     \* .gitignore
    composeFile,   \* docker-compose.yml
    ncalls,        \* API calls made
    faults,        \* I/O failures injected
    privateValue,  \* history: for each key, the private value its latest successful
                   \*   AddEnvironment resolved
    lastSave,      \* what the last SaveIfDifferent did
    insertOrder,   \* history: keys of environment[i] in order of first insertion
    servicesB,     \* the same calls replayed under ProcEnvB: service values,
    environmentB,  \*   environment maps
    configB,       \*   and composeConfig
    lastUpsert     \* what the last direct call of AddEnvToFile returned

vars == <<procEnv, services, environment, config, envFile, gitignore, composeFile,
          ncalls, faults, privateValue, lastSave, insertOrder, servicesB, environmentB, configB,
          lastUpsert>>

\* a second process environment: the same names, every value different
ProcEnvB == [k \in DOMAIN procEnv |-> Append(procEnv[k], "t")]

\* a nil *healthCheck
NoHealthCheck ==
    [set |-> FALSE, Test |-> <<>>, Interval |-> <<>>, Timeout |-> <<>>, Retries |-> 0]

NewService(name) ==
    [name |-> name, image |-> <<>>, containerName |-> name, volumes |-> <<>>,
     restartPolicy |-> <<>>, healthCheck |-> NoHealthCheck, errors |-> <<>>]

NoConfig == [made |-> FALSE, version |-> <<>>, services |-> <<>>, volumes |-> <<>>]

\* fmt.Errorf("environment variable %s not found", key)
MissingVariable(key) == <<"environment variable ", key, " not found">>

\* fmt.Sprintf("${%s}", key)
Placeholder(key) == <<"${", key, "}">>

\* a resolution that consults the process environment before the explicit value
Resolve_envFirst(env, key, value) ==
    IF key \in DOMAIN env
    THEN [exists |-> TRUE, envPubValue |-> Placeholder(key), envPrivValue |-> env[key]]
    ELSE IF Len(value) > 0
         THEN [exists |-> TRUE, envPubValue |-> value[1], envPrivValue |-> value[1]]
         ELSE [exists |-> FALSE, envPubValue |-> <<>>, envPrivValue |-> <<>>]

\* the first half of AddEnvironment: value is the variadic argument list
Resolve(env, key, value) ==
    IF Len(value) > 0
    THEN [exists |-> TRUE, envPubValue |-> value[1], envPrivValue |-> value[1]]
    ELSE IF key \notin DOMAIN env
         THEN [exists |-> FALSE, envPubValue |-> <<>>, envPrivValue |-> <<>>]
         ELSE [exists |-> TRUE, envPubValue |-> Placeholder(key), envPrivValue |-> env[key]]

\* s.errors = append(s.errors, ...) on the missing-variable path
RecordError(svc, key, r) ==
    IF r.exists THEN svc ELSE [svc EXCEPT !.errors = Append(@, MissingVariable(key))]

\* an assignment made on the missing-variable path too (no early return)
StoreEnvironment_always(env, key, r) == MapPut(env, key, r.envPubValue)

\* s.environment[key] = envPubValue
StoreEnvironment(env, key, r) ==
    IF r.exists THEN MapPut(env, key, r.envPubValue) ELSE env

\* `if envPrivValue != ""`: whether AddEnvToFile is called
Persists(r) == r.exists /\ r.envPrivValue # <<>>

\* --------------------------------------------------------------- rendering
RECURSIVE EnvironmentLines(_, _)
EnvironmentLines(env, ord) ==
    IF ord = <<>> THEN <<>>
    ELSE <<"      ">> \o Quote(<<Head(ord)>>) \o <<": ">> \o Quote(env[Head(ord)]) \o <<"\n">>
         \o EnvironmentLines(env, Tail(ord))

RECURSIVE VolumeLines(_)
VolumeLines(volumes) ==
    IF volumes = <<>> THEN <<>>
    ELSE <<"      - ">> \o Head(volumes).Source \o <<":">> \o Head(volumes).Target \o <<"\n">>
         \o VolumeLines(Tail(volumes))

RECURSIVE TestLines(_)
TestLines(test) ==
    IF test = <<>> THEN <<>>
    ELSE <<"        - ">> \o Quote(<<Head(test)>>) \o <<"\n">> \o TestLines(Tail(test))

\* the healthcheck block of a service whose healthCheck is not nil
HealthCheckBlock(h) ==
    <<"    healthcheck:", "\n", "      test:", "\n">> \o TestLines(h.Test)
    \o (IF h.Interval # <<>>
        THEN <<"      interval: ">> \o Quote(h.Interval) \o <<"\n">> ELSE <<>>)
    \o (IF h.Timeout # <<>>
        THEN <<"      timeout: ">> \o Quote(h.Timeout) \o <<"\n">> ELSE <<>>)
    \o (IF h.Retries > 0
        THEN <<"      retries: ", ToString(h.Retries), "\n">> ELSE <<>>)

\* the block generateYAML writes for one service without errors; the ports,
\* depends_on, command and networks parts are left out, the calls that fill
\* them not being modelled (they write nothing for a service without them)
ServiceBlock(service, env, ord) ==
    <<"  ">> \o service.containerName \o <<":", "\n">>
    \o <<"    image: ">> \o Quote(service.image) \o <<"\n">>
    \o (IF service.containerName # <<>>
        THEN <<"    container_name: ">> \o Quote(service.containerName) \o <<"\n">>
        ELSE <<>>)
    \o (IF Cardinality(DOMAIN env) > 0
        THEN <<"    environment:", "\n">> \o EnvironmentLines(env, ord)
        ELSE <<>>)
    \o (IF Len(service.volumes) > 0
        THEN <<"    volumes:", "\n">> \o VolumeLines(service.volumes)
        ELSE <<>>)
    \o (IF service.restartPolicy # <<>>
        THEN <<"    restart: ">> \o Quote(service.restartPolicy) \o <<"\n">>
        ELSE <<>>)
    \o (IF service.healthCheck.set THEN HealthCheckBlock(service.healthCheck) ELSE <<>>)

\* a collection that keeps only the errors of the first failing service
JoinErrors_first(out_errors, errs) == IF out_errors = <<>> THEN errs ELSE out_errors

\* out_errors = append(out_errors, service.errors...)
JoinErrors(out_errors, errs) == out_errors \o errs

\* the loop of generateYAML over c.services
RECURSIVE RenderLoop(_, _, _, _, _)
RenderLoop(svcs, i, envs, ords, acc) ==
    IF i > Len(svcs) THEN acc
    ELSE IF Len(svcs[i].errors) > 0
         THEN RenderLoop(svcs, i + 1, envs, ords,
                         [acc EXCEPT !.out_errors = JoinErrors(@, svcs[i].errors)])
         ELSE RenderLoop(svcs, i + 1, envs, ords,
                         [acc EXCEPT !.b = @ \o ServiceBlock(svcs[i], envs[svcs[i].env], ords[i])])

\* a render that emits the services without errors and reports success
generateYAML_partial(c, envs, ords) ==
    [ok |-> TRUE,
     data |-> RenderLoop(c.services, 1, envs, ords,
                         [b |-> <<"version: ">> \o Quote(c.version) \o <<"\n", "services:", "\n">>,
                          out_errors |-> <<>>]).b,
     errs |-> <<>>]

\* generateYAML: ords[i] is the order in which the environment map of the
\* i-th service is ranged over
generateYAML(c, envs, ords) ==
    LET acc == RenderLoop(c.services, 1, envs, ords,
                          [b |-> <<"version: ">> \o Quote(c.version) \o <<"\n", "services:", "\n">>,
                           out_errors |-> <<>>])
    IN  IF Len(acc.out_errors) > 0
        THEN [ok |-> FALSE, data |-> <<>>, errs |-> acc.out_errors]
        ELSE [ok |-> TRUE, data |-> acc.b, errs |-> <<>>]

AllOrders == UNION {RangeOrders(S) : S \in SUBSET Keys}

\* the range orders one call of generateYAML may meet
YAMLOrders(c, envs) ==
    {o \in [1..Len(c.services) -> AllOrders] :
        \A i \in 1..Len(c.services) : o[i] \in RangeOrders(DOMAIN envs[c.services[i].env])}

\* the part of SaveIfDifferent after generateYAML succeeded: outcomes
\* [file, ret, wrote, faulted]
SaveFile(file, yamlData, mayFail) ==
    (IF mayFail /\ file.exists
     THEN {[file |-> file, ret |-> "readerr", wrote |-> FALSE, faulted |-> TRUE]}
     ELSE {})
    \cup (IF file.exists /\ file.data = yamlData
          THEN {[file |-> file, ret |-> "ok", wrote |-> FALSE, faulted |-> FALSE]}
          ELSE {[file |-> w.file, ret |-> IF w.err THEN "writeerr" ELSE "ok",
                 wrote |-> TRUE, faulted |-> w.faulted] :
                    w \in WriteOutcomes(file, yamlData, mayFail)})

\* ------------------------------------------------------------------- state
\* the process environments a run may start in: nothing set; K1 = "s" and
\* K2 = "" (set, and empty)
ProcEnvs == {EmptyMap, [k \in Keys |-> IF k = "K1" THEN <<"s">> ELSE <<>>]}

\* the service lists NewCompose may be given: distinct services in any order
Docs == {d \in UNION {[1..n -> Services] : n \in 1..Cardinality(Services)} :
            \A i, j \in 1..Len(d) : d[i] = d[j] => i = j}

NoSave == [ret |-> "none", wrote |-> FALSE, yaml |-> <<>>, yamlB |-> <<>>, errs |-> <<>>]

\* the state after NewService has built every service, f failures spent
Start(f) ==
    /\ procEnv \in ProcEnvs
    /\ services = [i \in Services |-> NewService(<<ServiceNames[i]>>)]
    /\ environment = [i \in Services |-> EmptyMap]
    /\ config = NoConfig
    /\ envFile = AbsentFile
    /\ gitignore = AbsentFile
    /\ composeFile = AbsentFile
    /\ ncalls = 0
    /\ faults = f
    /\ privateValue = EmptyMap
    /\ lastSave = NoSave
    /\ insertOrder = [i \in Services |-> <<>>]
    /\ servicesB = services
    /\ environmentB = environment
    /\ configB = config
    /\ lastUpsert = "none"

Init == Start(0)

\* ----------------------------------------------------------------- actions
FirstInsert(order, key, r) ==
    IF r.exists /\ \A n \in 1..Len(order) : order[n] # key THEN Append(order, key) ELSE order

\* (s *service) AddEnvironment(key string, value ...string)
AddEnvironment(i, key, value) ==
    /\ ncalls < MaxCalls
    /\ LET r == Resolve(procEnv, key, value)
           rB == Resolve(ProcEnvB, key, value)
       IN  /\ services' = [services EXCEPT ![i] = RecordError(@, key, r)]
           /\ environment' = [environment EXCEPT ![i] = StoreEnvironment(@, key, r)]
           /\ servicesB' = [servicesB EXCEPT ![i] = RecordError(@, key, rB)]
           /\ environmentB' = [environmentB EXCEPT ![i] = StoreEnvironment(@, key, rB)]
           /\ insertOrder' = [insertOrder EXCEPT ![i] = FirstInsert(@, key, r)]
           /\ IF Persists(r)
              THEN /\ \E o \in AddEnvToFile(<<key>>, r.envPrivValue, envFile, gitignore,
                                            faults < MaxFaults) :
                        /\ envFile' = o.env
                        /\ gitignore' = o.gi
                        /\ faults' = faults + (IF o.faulted THEN 1 ELSE 0)
              ELSE UNCHANGED <<envFile, gitignore, faults>>
           /\ privateValue' = IF r.exists THEN MapPut(privateValue, key, r.envPrivValue)
                                          ELSE privateValue
    /\ ncalls' = ncalls + 1
    /\ UNCHANGED <<procEnv, config, configB, composeFile, lastSave, lastUpsert>>

\* the composeConfig NewCompose builds: the services are passed by value, so
\* the document holds a copy of every field; the copy of the environment
\* field refers to the same map (env is the map's identity)
ConfigOf(version, doc, svcs) ==
    [made |-> TRUE, version |-> version,
     services |-> [j \in 1..Len(doc) |->
                      [name |-> svcs[doc[j]].name, image |-> svcs[doc[j]].image,
                       containerName |-> svcs[doc[j]].containerName,
                       volumes |-> svcs[doc[j]].volumes,
                       restartPolicy |-> svcs[doc[j]].restartPolicy,
                       healthCheck |-> svcs[doc[j]].healthCheck,
                       errors |-> svcs[doc[j]].errors, env |-> doc[j]]],
     volumes |-> <<>>]

\* NewCompose(version string, services ...service)
NewCompose(version, doc) ==
    /\ ncalls < MaxCalls
    /\ config' = ConfigOf(version, doc, services)
    /\ configB' = ConfigOf(version, doc, servicesB)
    /\ ncalls' = ncalls + 1
    /\ UNCHANGED <<procEnv, services, servicesB, environment, environmentB, envFile, gitignore,
                   composeFile, faults, privateValue, lastSave, insertOrder, lastUpsert>>

\* (c *composeConfig) SaveIfDifferent(filename ...string)
SaveIfDifferent ==
    /\ ncalls < MaxCalls
    /\ config.made
    /\ \E ords \in YAMLOrders(config, environment), ordsB \in YAMLOrders(configB, environmentB) :
          LET y == generateYAML(config, environment, ords)
              yB == generateYAML(configB, environmentB, ordsB)
          IN  IF ~y.ok
              THEN /\ lastSave' = [ret |-> "generr", wrote |-> FALSE, yaml |-> y.data,
                                   yamlB |-> yB.data, errs |-> y.errs]
                   /\ UNCHANGED <<composeFile, faults>>
              ELSE \E o \in SaveFile(composeFile, y.data, faults < MaxFaults) :
                      /\ composeFile' = o.file
                      /\ faults' = faults + (IF o.faulted THEN 1 ELSE 0)
                      /\ lastSave' = [ret |-> o.ret, wrote |-> o.wrote, yaml |-> y.data,
                                      yamlB |-> yB.data, errs |-> <<>>]
    /\ ncalls' = ncalls + 1
    /\ UNCHANGED <<procEnv, services, servicesB, environment, environmentB, config, configB,
                   envFile, gitignore, privateValue, insertOrder, lastUpsert>>

\* what every setter leaves alone
SetterFrame ==
    UNCHANGED <<procEnv, environment, environmentB, config, configB, envFile, gitignore,
                composeFile, faults, privateValue, lastSave, insertOrder, lastUpsert>>

\* (s *service) SetContainerName(name string)
SetContainerName(i, name) ==
    /\ ncalls < MaxCalls
    /\ services' = [services EXCEPT ![i].containerName = name]
    /\ servicesB' = [servicesB EXCEPT ![i].containerName = name]
    /\ ncalls' = ncalls + 1
    /\ SetterFrame

\* (s *service) SetImage(image string)
SetImage(i, image) ==
    /\ ncalls < MaxCalls
    /\ services' = [services EXCEPT ![i].image = image]
    /\ servicesB' = [servicesB EXCEPT ![i].image = image]
    /\ ncalls' = ncalls + 1
    /\ SetterFrame

\* (s *service) AddVolume(volume Volume)
AddVolume(i, volume) ==
    /\ ncalls < MaxCalls
    /\ services' = [services EXCEPT ![i].volumes = Append(@, volume)]
    /\ servicesB' = [servicesB EXCEPT ![i].volumes = Append(@, volume)]
    /\ ncalls' = ncalls + 1
    /\ SetterFrame

\* (s *service) SetRestartPolicy(policy string)
SetRestartPolicy(i, policy) ==
    /\ ncalls < MaxCalls
    /\ services' = [services EXCEPT ![i].restartPolicy = policy]
    /\ servicesB' = [servicesB EXCEPT ![i].restartPolicy = policy]
    /\ ncalls' = ncalls + 1
    /\ SetterFrame

\* &healthCheck{Test: test, Interval: interval, Timeout: timeout, Retries: retries}
NewHealthCheck(test, interval, timeout, retries) ==
    [set |-> TRUE, Test |-> test, Interval |-> interval, Timeout |-> timeout,
     Retries |-> retries]

\* (s *service) SetHealthCheck(test []string, interval, timeout string, retries int)
SetHealthCheck(i, test, interval, timeout, retries) ==
    /\ ncalls < MaxCalls
    /\ services' = [services EXCEPT
                       ![i].healthCheck = NewHealthCheck(test, interval, timeout, retries)]
    /\ servicesB' = [servicesB EXCEPT
                        ![i].healthCheck = NewHealthCheck(test, interval, timeout, retries)]
    /\ ncalls' = ncalls + 1
    /\ SetterFrame

Next ==
    \/ \E i \in Services, key \in Keys, value \in {<<>>} \cup {<<v>> : v \in ExplicitValues} :
          AddEnvironment(i, key, value)
    \/ \E version \in Versions, doc \in Docs : NewCompose(version, doc)
    \/ SaveIfDifferent

Spec == Init /\ [][Next]_vars

\* the same program on a filesystem that never fails
InitReliable == Start(MaxFaults)
SpecReliable == InitReliable /\ [][Next]_vars

\* the builder's setters, NewCompose and SaveIfDifferent, on a filesystem that
\* never fails and with no variable set in the process environment
InitBuild == Start(MaxFaults) /\ procEnv = EmptyMap

NextBuild ==
    \/ \E i \in Services, name \in ContainerNames : SetContainerName(i, name)
    \/ \E i \in Services, image \in Images : SetImage(i, image)
    \/ \E i \in Services, volume \in Volumes : AddVolume(i, volume)
    \/ \E i \in Services, policy \in RestartPolicies : SetRestartPolicy(i, policy)
    \/ \E i \in Services, h \in HealthChecks :
          SetHealthCheck(i, h.Test, h.Interval, h.Timeout, h.Retries)
    \/ \E version \in Versions, doc \in Docs : NewCompose(version, doc)
    \/ SaveIfDifferent

SpecBuild == InitBuild /\ [][NextBuild]_vars

\* AddEnvToFile called directly on files that exist already.  The secrets
\* files a run may find: none, an empty one, one and two KEY=value lines, a
\* comment above a last line without newline
StoreFiles ==
    {AbsentFile, FileOf(<<>>), FileOf(<<"K1", "=", "v", "\n">>),
     FileOf(<<"K2", "=", "w", "\n", "K1", "=", "v", "\n">>),
     FileOf(<<"#c", "\n", "K1", "=", "v">>)}

\* the ignore files a run may find: none, an empty one, a line with and
\* without its newline, trailing and inner empty lines, the entry itself
\* (alone, without newline, after a blank, followed by empty lines)
IgnoreFiles ==
    {AbsentFile, FileOf(<<>>), FileOf(<<"*.log", "\n">>), FileOf(<<"*.log">>),
     FileOf(<<"*.log", "\n", "\n", "\n">>), FileOf(<<"*.log", "\n", "\n", "tmp", "\n">>),
     FileOf(<<".env", "\n">>), FileOf(<<".env">>), FileOf(<<" ", ".env", "\n">>),
     FileOf(<<".env", "\n", "\n">>)}

\* the values handed to AddEnvToFile: a plain one and one holding a '='
StoreValues == {<<"x">>, <<"p", "=", "q">>}

InitStore ==
    /\ procEnv = EmptyMap
    /\ services = [i \in Services |-> NewService(<<ServiceNames[i]>>)]
    /\ environment = [i \in Services |-> EmptyMap]
    /\ config = NoConfig
    /\ envFile \in StoreFiles
    /\ gitignore \in IgnoreFiles
    /\ composeFile = AbsentFile
    /\ ncalls = 0
    /\ faults \in {0, MaxFaults}
    /\ privateValue = EmptyMap
    /\ lastSave = NoSave
    /\ insertOrder = [i \in Services |-> <<>>]
    /\ servicesB = services
    /\ environmentB = environment
    /\ configB = config
    /\ lastUpsert = "none"

\* AddEnvToFile(key, value) called by the program's user
CallAddEnvToFile(key, value) ==
    /\ ncalls < MaxCalls
    /\ \E o \in AddEnvToFile(<<key>>, value, envFile, gitignore, faults < MaxFaults) :
          /\ envFile' = o.env
          /\ gitignore' = o.gi
          /\ faults' = faults + (IF o.faulted THEN 1 ELSE 0)
          /\ lastUpsert' = IF o.err THEN "err" ELSE "nil"
    /\ ncalls' = ncalls + 1
    /\ UNCHANGED <<procEnv, services, servicesB, environment, environmentB, config, configB,
                   composeFile, privateValue, lastSave, insertOrder>>

NextStore == \E key \in Keys, value \in StoreValues : CallAddEnvToFile(key, value)

SpecStore == InitStore /\ [][NextStore]_vars

\* the same on a filesystem that never fails
InitStoreReliable == InitStore /\ faults = MaxFaults
SpecStoreReliable == InitStoreReliable /\ [][NextStore]_vars

\* ------------------------------------------------------------------ claims
HasErrors(c) == \E j \in 1..Len(c.services) : Len(c.services[j].errors) > 0

\* a step of SaveIfDifferent (no builder state changes in it)
SaveStep == UNCHANGED <<services, environment, config, privateValue>> /\ SaveIfDifferent

\* C1: when a service of the document holds a missing-variable error,
\* SaveIfDifferent returns the generation error, generateYAML yields no bytes
\* under any range order, and the manifest file is left exactly as it was
\* (absent if it was absent).
C1_ErrorsBlockSave ==
    [][(HasErrors(config) /\ SaveStep)
          => /\ lastSave'.ret = "generr"
             /\ lastSave'.yaml = <<>>
             /\ \A ords \in YAMLOrders(config, environment) :
                   LET y == generateYAML(config, environment, ords)
                   IN  ~y.ok /\ y.data = <<>>
             /\ composeFile' = composeFile]_vars

\* C1 witness: a save was refused while a manifest written earlier exists
C1_Witness == lastSave.ret = "generr" /\ composeFile.exists /\ HasErrors(config)

RECURSIVE ConcatErrors(_)
ConcatErrors(svcs) ==
    IF svcs = <<>> THEN <<>> ELSE Head(svcs).errors \o ConcatErrors(Tail(svcs))

\* C2: when the render fails, the aggregate error is the concatenation of the
\* error lists of the document's services, services in document order and each
\* list in recording order: nothing dropped, nothing duplicated.
C2_AggregateAllErrors ==
    [][(lastSave'.ret = "generr" /\ SaveStep)
          => lastSave'.errs = ConcatErrors(config.services)]_vars

\* C2 witness: a failed render over two services that both hold errors, for
\* different variables
C2_Witness ==
    /\ lastSave.ret = "generr"
    /\ Len(config.services) = 2
    /\ Len(config.services[1].errors) > 0
    /\ Len(config.services[2].errors) > 0
    /\ config.services[1].errors # config.services[2].errors
    /\ lastSave.errs = config.services[1].errors \o config.services[2].errors

\* C3: AddEnvironment(key) with no explicit value and key unset appends exactly
\* one missing-variable error for key to that service, adds or alters no
\* environment entry, writes nothing to the secrets store or the ignore list,
\* and changes no other field of that or any other service.
C3_MissingVariableRecorded ==
    [][\A i \in Services, key \in Keys :
          (key \notin DOMAIN procEnv /\ AddEnvironment(i, key, <<>>))
             => /\ services'[i] = [services[i] EXCEPT
                                      !.errors = Append(@, MissingVariable(key))]
                /\ \A j \in Services \ {i} : services'[j] = services[j]
                /\ environment' = environment
                /\ envFile' = envFile
                /\ gitignore' = gitignore
                /\ privateValue' = privateValue
                /\ config' = config]_vars

\* C3 witness: a service holds a missing-variable error for a key its
\* environment has no entry for, next to an entry stored by another call
C3_Witness ==
    \E i \in Services, key \in Keys :
       /\ key \notin DOMAIN procEnv
       /\ services[i].errors = <<MissingVariable(key)>>
       /\ key \notin DOMAIN environment[i]
       /\ DOMAIN environment[i] # {}

\* the secrets store and the ignore list change as one AddEnvToFile(key, value) does
Upserted(key, value) ==
    \E o \in AddEnvToFile(<<key>>, value, envFile, gitignore, faults < MaxFaults) :
       envFile' = o.env /\ gitignore' = o.gi

\* a step of AddEnvironment(i, key, value) that stored an entry for key
StoreStep(i, key, value) ==
    /\ UNCHANGED <<config, lastSave, composeFile>>
    /\ key \in DOMAIN environment'[i]
    /\ AddEnvironment(i, key, value)

\* C4 as claimed: for every key and value, an explicit value x is stored as
\* key -> x and upserted as key=x; without explicit value a key set to v is
\* stored as key -> "${key}" and upserted as key=v.
C4_AsClaimed ==
    [][\A i \in Services, key \in Keys :
          /\ \A x \in ExplicitValues :
                StoreStep(i, key, <<x>>)
                   => environment'[i][key] = x /\ Upserted(key, x)
          /\ (key \in DOMAIN procEnv /\ StoreStep(i, key, <<>>))
                => /\ environment'[i][key] = Placeholder(key)
                   /\ Upserted(key, procEnv[key])
                   /\ privateValue'[key] = procEnv[key]]_vars

\* C4 amended: the same, the upsert being made only when the private value is
\* non-empty; with an empty private value the environment entry is stored and
\* the secrets store is left untouched.  The explicit value wins over the
\* process environment.
C4_ResolvePair ==
    [][\A i \in Services, key \in Keys :
          /\ \A x \in ExplicitValues :
                StoreStep(i, key, <<x>>)
                   => /\ environment'[i][key] = x
                      /\ privateValue'[key] = x
                      /\ IF x # <<>> THEN Upserted(key, x)
                                     ELSE envFile' = envFile /\ gitignore' = gitignore
          /\ (key \in DOMAIN procEnv /\ StoreStep(i, key, <<>>))
                => /\ environment'[i][key] = Placeholder(key)
                   /\ privateValue'[key] = procEnv[key]
                   /\ IF procEnv[key] # <<>> THEN Upserted(key, procEnv[key])
                                             ELSE envFile' = envFile /\ gitignore' = gitignore]_vars

\* C4 witness: one key resolved from the process environment and stored as its
\* placeholder, another given explicitly while the process environment sets it
C4_Witness ==
    \E i \in Services, k1, k2 \in Keys :
       /\ k1 \in DOMAIN procEnv /\ procEnv[k1] # <<>>
       /\ k1 \in DOMAIN environment[i] /\ environment[i][k1] = Placeholder(k1)
       /\ k2 \in DOMAIN procEnv
       /\ k2 \in DOMAIN environment[i] /\ environment[i][k2] \in ExplicitValues
       /\ privateValue[k2] = environment[i][k2]
       /\ envFile.exists

\* the secrets file has the line key=value, read as it is written (no trimming)
StoreHolds(key, value) ==
    /\ envFile.exists
    /\ \E n \in 1..Len(Split(envFile.data)) : Split(envFile.data)[n] = <<key, "=">> \o value

\* C5 (as claimed): every key of any service's environment is in the secrets
\* store, with the private value its latest successful AddEnvironment resolved.
C5_StoreMirrors ==
    \A i \in Services : \A key \in DOMAIN environment[i] :
       StoreHolds(key, privateValue[key])

\* the same for the keys whose private value is not empty: it fails as well,
\* a value with a trailing blank being rewritten without it by the next upsert
C5_NonEmptyMirrored ==
    \A i \in Services : \A key \in DOMAIN environment[i] :
       privateValue[key] # <<>> => StoreHolds(key, privateValue[key])

\* the replay under ProcEnvB is in the same builder state as the run itself
\* (so both runs can render the same manifests)
TwinAgreement ==
    services = servicesB /\ environment = environmentB /\ config = configB

\* C6 (as claimed): the run and its replay under a process environment with
\* the same names and other values render identical manifests, and a variable
\* added without explicit value is stored, hence rendered, as "${key}".
C6_SecretNeverRendered ==
    /\ [](procEnv # ProcEnvB => lastSave.yaml = lastSave.yamlB)
    /\ [][\A i \in Services, key \in Keys :
             (key \in DOMAIN procEnv /\ StoreStep(i, key, <<>>))
                => /\ environment'[i][key] = Placeholder(key)
                   /\ environmentB'[i][key] = Placeholder(key)]_vars

\* C7 (as claimed): any two renders of the document give the same bytes,
\* whatever order the environment maps are ranged over.
C7_Deterministic ==
    config.made =>
       \A o1, o2 \in YAMLOrders(config, environment) :
          generateYAML(config, environment, o1) = generateYAML(config, environment, o2)

\* the range order that visits every environment in first-insertion order
InsertionOrders(c) == [j \in 1..Len(c.services) |-> insertOrder[c.services[j].env]]

\* C8 (as claimed): every render lists the environment keys of each service in
\* the order of their first AddEnvironment call.
C8_InsertionOrder ==
    config.made =>
       \A ords \in YAMLOrders(config, environment) :
          generateYAML(config, environment, ords).data
             = generateYAML(config, environment, InsertionOrders(config)).data

\* the manifest file holds a rendering of the document as it is now, which is
\* what a SaveIfDifferent of this document leaves behind
FileIsRender ==
    /\ composeFile.exists
    /\ \E ords \in YAMLOrders(config, environment) :
          composeFile.data = generateYAML(config, environment, ords).data

\* C9 (as claimed): on an error-free document SaveIfDifferent succeeds, leaves
\* the file equal to the rendered text, writes exactly when the file was
\* absent or different, and does not write when the file already holds what a
\* save of the same document wrote.
C9_WritesOnlyWhenNeeded ==
    [][(~HasErrors(config) /\ SaveStep)
          => /\ lastSave'.ret = "ok"
             /\ composeFile' = FileOf(lastSave'.yaml)
             /\ lastSave'.wrote = (~composeFile.exists \/ composeFile.data # lastSave'.yaml)
             /\ (FileIsRender => ~lastSave'.wrote)]_vars

\* C10 (as claimed): a SaveIfDifferent that returns an I/O error leaves the
\* manifest file with the content it had before the call.
C10_NoPartialWrite ==
    [][(lastSave'.ret \in {"readerr", "writeerr"} /\ SaveStep)
          => composeFile' = composeFile]_vars

\* C11 (as claimed): a step in which an I/O operation failed reports the
\* failure: SaveIfDifferent returns an error, and AddEnvironment leaves the
\* failure with the service (its error list, the one thing the builder's caller
\* can read back) instead of completing as on success.
C11_FailuresReported ==
    [][faults' # faults
          => /\ SaveIfDifferent => lastSave'.ret \in {"readerr", "writeerr"}
             /\ \A i \in Services, key \in Keys,
                   value \in {<<>>} \cup {<<v>> : v \in ExplicitValues} :
                   AddEnvironment(i, key, value)
                      => Len(services'[i].errors) > Len(services[i].errors)]_vars

\* a named volume is referenced by a bare name, a bind mount by a path
IsNamedVolume(v) == v.Source # <<>> /\ Head(v.Source) \notin {"./", "../", "/"}

\* the named volumes the services reference, each once, in order of first
\* appearance across the services in declaration order
RECURSIVE FirstAppearance(_, _)
FirstAppearance(vols, names) ==
    IF vols = <<>> THEN names
    ELSE FirstAppearance(Tail(vols),
            IF IsNamedVolume(Head(vols)) /\ \A n \in 1..Len(names) : names[n] # Head(vols).Source
            THEN Append(names, Head(vols).Source) ELSE names)

RECURSIVE AllVolumes(_)
AllVolumes(svcs) ==
    IF svcs = <<>> THEN <<>> ELSE Head(svcs).volumes \o AllVolumes(Tail(svcs))

NamedVolumes(c) == FirstAppearance(AllVolumes(c.services), <<>>)

\* the document-level volumes section the claim calls for
RECURSIVE VolumesSection(_)
VolumesSection(names) ==
    IF names = <<>> THEN <<>>
    ELSE <<"  ">> \o Head(names) \o <<":", "\n", "    driver: ">> \o Quote(<<"local">>) \o <<"\n">>
         \o VolumesSection(Tail(names))

\* the part of a manifest from its top-level line "volumes:" on
DocumentVolumes(data) ==
    IF \E n \in 1..Len(data) : data[n] = "volumes:" /\ (n = 1 \/ data[n - 1] = "\n")
    THEN LET n == CHOOSE m \in 1..Len(data) : data[m] = "volumes:" /\ (m = 1 \/ data[m - 1] = "\n")
         IN  SubSeq(data, n, Len(data))
    ELSE <<>>

\* C12 (as claimed): the document holds one volumes entry for every named
\* volume its services reference, in order of first appearance, and renders
\* them as a volumes section with driver local; bind mounts add no entry.
C12_DerivedVolumes ==
    (config.made /\ ~HasErrors(config)) =>
       /\ Len(config.volumes) = Len(NamedVolumes(config))
       /\ \A ords \in YAMLOrders(config, environment) :
             DocumentVolumes(generateYAML(config, environment, ords).data)
                = IF NamedVolumes(config) = <<>> THEN <<>>
                  ELSE <<"volumes:", "\n">> \o VolumesSection(NamedVolumes(config))

\* the line holds an empty quoted string
EmptyString(line) ==
    \E n \in 1..(Len(line) - 1) :
       line[n] = "\"" /\ line[n + 1] = "\"" /\ (n = 1 \/ line[n - 1] # "\\")

\* the lines that open a sequence or a mapping, and how an item of it begins
ItemOf ==
    [h \in {"services:", "    environment:", "    volumes:", "    healthcheck:", "      test:"} |->
        CASE h = "services:" -> {"  "}
          [] h = "    environment:" -> {"      "}
          [] h = "    volumes:" -> {"      - "}
          [] h = "    healthcheck:" -> {"      test:", "      interval: ", "      timeout: ",
                                        "      retries: "}
          [] h = "      test:" -> {"        - "}]

\* line n opens a sequence or mapping that has no item
EmptyCollection(lines, n) ==
    /\ Len(lines[n]) = 1
    /\ lines[n][1] \in DOMAIN ItemOf
    /\ \/ n = Len(lines)
       \/ lines[n + 1] = <<>>
       \/ lines[n + 1][1] \notin ItemOf[lines[n][1]]

NoEmptyField(data) ==
    LET lines == Split(data)
    IN  \A n \in 1..Len(lines) : ~EmptyString(lines[n]) /\ ~EmptyCollection(lines, n)

\* C13 (as claimed): no rendered manifest holds an empty string, an empty
\* sequence or an empty mapping, whatever setters were called or left out.
C13_NoEmptyField ==
    (config.made /\ ~HasErrors(config)) =>
       \A ords \in YAMLOrders(config, environment) :
          NoEmptyField(generateYAML(config, environment, ords).data)

\* a step of the specifications in which AddEnvToFile is called directly
UpsertStep == lastUpsert' # "none" /\ ncalls' = ncalls + 1

\* the lines of the ignore file (none when it is absent)
IgnoreLines(file) == IF file.exists THEN Split(file.data) ELSE <<>>

\* the lines that are not blank, in order
NonBlank(lines) == SelectSeq(lines, LAMBDA l : l # <<>>)

StoreLines(file) ==
    IF ~file.exists THEN <<>>
    ELSE LET lines == Split(file.data)
         IN  IF lines[Len(lines)] = <<>> THEN SubSeq(lines, 1, Len(lines) - 1) ELSE lines

\* every line of the secrets file is KEY=value for a key of Keys, one line
\* per key, the last line ended by a newline
WellFormedStore(file) ==
    LET lines == StoreLines(file)
    IN  /\ file.exists => (file.data = <<>> \/ file.data[Len(file.data)] = "\n")
        /\ \A n \in 1..Len(lines) :
              /\ Len(lines[n]) >= 2 /\ lines[n][1] \in Keys /\ lines[n][2] = "="
              /\ \A m \in 1..Len(lines) : lines[m][1] = lines[n][1] => m = n

\* C15 (as claimed): on a secrets file of KEY=value lines AddEnvToFile(key,
\* value) replaces the line of key in place, or adds key=value after the
\* existing lines when key is new; every other line stays where it is.
C15_UpsertInPlace ==
    [][\A key \in Keys, value \in StoreValues :
          (UpsertStep /\ WellFormedStore(envFile) /\ CallAddEnvToFile(key, value))
             => LET old == StoreLines(envFile)
                    new == StoreLines(envFile')
                    line == <<key, "=">> \o value
                IN  /\ WellFormedStore(envFile')
                    /\ IF \E n \in 1..Len(old) : old[n][1] = key
                       THEN new = [n \in 1..Len(old) |->
                                      IF old[n][1] = key THEN line ELSE old[n]]
                       ELSE new = Append(old, line)]_vars

\* every call of AddEnvToFile in which an I/O operation failed returns an error
C11_UpsertReported ==
    [][(UpsertStep /\ faults' # faults) => lastUpsert' = "err"]_vars

====
